---- MODULE Spec2Model ----
(***************************************************************************)
(* Wave-Craft: the Segmentor (src/segmentor.py) and the per-file loop of   *)
(* the operator (src/wavecraft/operator.py).                               *)
(*                                                                         *)
(* The Segmentor's arithmetic is Python/numpy double arithmetic.  The      *)
(* doubles are modelled exactly: a double is [m, e] with value m * 2^e,    *)
(* m a 53-bit natural (or zero), and every operation rounds to nearest,    *)
(* ties to even, as IEEE-754 does.  Naturals wider than TLC's integers are *)
(* little-endian sequences of 10-bit limbs.                                *)
(***************************************************************************)
EXTENDS Integers, Sequences, FiniteSets, TLC

----------------------------------------------------------------------------
(* Wide naturals: <<l1, l2, ...>> is l1 + 1024*l2 + ..., no leading zero.  *)

RECURSIVE BNorm(_)
BNorm(a) ==
    IF a = <<>> THEN <<>>
    ELSE IF a[Len(a)] = 0 THEN BNorm(SubSeq(a, 1, Len(a) - 1))
    ELSE a

RECURSIVE BFromInt(_)
BFromInt(n) ==
    IF n = 0 THEN <<>> ELSE <<n % 1024>> \o BFromInt(n \div 1024)

RECURSIVE BToInt(_)
BToInt(a) ==
    IF a = <<>> THEN 0 ELSE Head(a) + 1024 * BToInt(Tail(a))

RECURSIVE BMulCarry(_, _, _)
BMulCarry(a, k, c) ==
    IF a = <<>> THEN BFromInt(c)
    ELSE LET v == Head(a) * k + c
         IN  <<v % 1024>> \o BMulCarry(Tail(a), k, v \div 1024)

\* a * k, for 0 < k < 2^21
BMulSmall(a, k) == BMulCarry(a, k, 0)

\* <<quotient limbs (not normalised), remainder>> of a by k, 0 < k < 2^21
RECURSIVE BDivRem(_, _)
BDivRem(a, k) ==
    IF a = <<>> THEN << <<>>, 0 >>
    ELSE LET hi == BDivRem(Tail(a), k)
             v  == hi[2] * 1024 + Head(a)
         IN  << <<v \div k>> \o hi[1], v % k >>

RECURSIVE SmallBitLen(_)
SmallBitLen(n) == IF n = 0 THEN 0 ELSE 1 + SmallBitLen(n \div 2)

BBitLen(a) ==
    IF a = <<>> THEN 0 ELSE 10 * (Len(a) - 1) + SmallBitLen(a[Len(a)])

Zeros(n) == [i \in 1..n |-> 0]

\* a * 2^n
BShl(a, n) ==
    IF a = <<>> THEN <<>>
    ELSE Zeros(n \div 10) \o BMulSmall(a, 2 ^ (n % 10))

\* floor(a / 2^n)
BShr(a, n) ==
    BNorm(BDivRem(SubSeq(a, (n \div 10) + 1, Len(a)), 2 ^ (n % 10))[1])

\* bit n of a (bit 0 is the lowest)
BBit(a, n) ==
    IF (n \div 10) + 1 > Len(a) THEN 0
    ELSE (a[(n \div 10) + 1] \div (2 ^ (n % 10))) % 2

\* whether any of the n lowest bits of a is set
BLowNonzero(a, n) ==
    \/ \E i \in 1..(n \div 10) : i <= Len(a) /\ a[i] # 0
    \/ /\ (n \div 10) + 1 <= Len(a)
       /\ a[(n \div 10) + 1] % (2 ^ (n % 10)) # 0

RECURSIVE BInc(_)
BInc(a) ==
    IF a = <<>> THEN <<1>>
    ELSE IF Head(a) < 1023 THEN <<Head(a) + 1>> \o Tail(a)
    ELSE <<0>> \o BInc(Tail(a))

\* a < b, both normalised
RECURSIVE BLess(_, _)
BLess(a, b) ==
    IF Len(a) # Len(b) THEN Len(a) < Len(b)
    ELSE IF a = <<>> THEN FALSE
    ELSE IF a[Len(a)] # b[Len(b)] THEN a[Len(a)] < b[Len(b)]
    ELSE BLess(SubSeq(a, 1, Len(a) - 1), SubSeq(b, 1, Len(b) - 1))

----------------------------------------------------------------------------
(* Doubles >= 0: [m |-> 53-bit natural or <<>>, e |-> exponent].           *)

DZero == [m |-> <<>>, e |-> 0]

\* The double nearest to (a + s) * 2^e, where 0 <= s < 1 and s > 0 iff
\* sticky; ties to even.  A sticky a has at least 55 bits.
RoundTo53(a, e, sticky) ==
    LET n == BBitLen(a)
    IN  IF n = 0 THEN DZero
        ELSE IF n <= 53 THEN [m |-> BShl(a, 53 - n), e |-> e - (53 - n)]
        ELSE LET d    == n - 53
                 q    == BShr(a, d)
                 half == BBit(a, d - 1) = 1
                 rest == BLowNonzero(a, d - 1) \/ sticky
                 up   == half /\ (rest \/ BBit(a, d) = 1)
                 r    == IF up THEN BInc(q) ELSE q
             IN  IF BBitLen(r) = 54
                 THEN [m |-> BShr(r, 1), e |-> e + d + 1]
                 ELSE [m |-> r, e |-> e + d]

\* float(n) for an integer 0 <= n < 2^31
DFromInt(n) == RoundTo53(BFromInt(n), 0, FALSE)

\* x * k in double arithmetic, k an integer 0 < k < 2^21
DMulInt(x, k) == RoundTo53(BMulSmall(x.m, k), x.e, FALSE)

\* x / k in double arithmetic, k an integer 0 < k < 2^21
DDivInt(x, k) ==
    LET qr == BDivRem(BShl(x.m, 24), k)
    IN  RoundTo53(BNorm(qr[1]), x.e - 24, qr[2] # 0)

\* int(x): truncation
DTrunc(x) ==
    IF x.e >= 0 THEN BToInt(BShl(x.m, x.e)) ELSE BToInt(BShr(x.m, -x.e))

\* rint(x): to the nearest integer, ties to even
DRint(x) ==
    IF x.e >= 0 THEN BToInt(BShl(x.m, x.e))
    ELSE LET d    == -x.e
             q    == BShr(x.m, d)
             half == BBit(x.m, d - 1) = 1
             rest == BLowNonzero(x.m, d - 1)
             up   == half /\ (rest \/ BBit(x.m, d) = 1)
         IN  BToInt(IF up THEN BInc(q) ELSE q)

\* x < y
DLess(x, y) ==
    IF x.m = <<>> THEN y.m # <<>>
    ELSE IF y.m = <<>> THEN FALSE
    ELSE IF x.e # y.e THEN x.e < y.e
    ELSE BLess(x.m, y.m)

----------------------------------------------------------------------------
(* The conversions of src/segmentor.py.  A decimal text with six places,   *)
(* "1.500000", is the natural 1500000 (its digits).                        *)

\* librosa.frames_to_samples(frames, hop_length, n_fft):
\* frames * hop_length + n_fft // 2
frames_to_samples(frames, hop_length, n_fft) ==
    [i \in DOMAIN frames |-> frames[i] * hop_length + (n_fft \div 2)]

\* librosa.samples_to_time(samples, sr): samples / float(sr)
samples_to_time(samples, sr) == DDivInt(DFromInt(samples), sr)

\* round(x, 6) of a numpy double: rint(x * 10**6) / 10**6
round6(x) == DDivInt(DFromInt(DRint(DMulInt(x, 1000000))), 1000000)

\* f'{x:.6f}': the decimal nearest to the double's exact value (ties to even)
format6f(x) ==
    LET a == BMulSmall(x.m, 1000000)
    IN  IF x.e >= 0 THEN BToInt(BShl(a, x.e))
        ELSE LET d    == -x.e
                 q    == BShr(a, d)
                 half == BBit(a, d - 1) = 1
                 rest == BLowNonzero(a, d - 1)
                 up   == half /\ (rest \/ BBit(a, d) = 1)
             IN  BToInt(IF up THEN BInc(q) ELSE q)

\* float(text) of a decimal text: the double nearest to digits / 10**6
float(text) == DDivInt(DFromInt(text), 1000000)

\* lines 60-63: one boundary as the text save_segments_as_txt writes
time_text(sample, sr) == format6f(round6(samples_to_time(sample, sr)))

\* Mutant of text_to_sample: the milliseconds are cut to an integer first.
text_to_sample_ms(token, sr) ==
    DTrunc(DDivInt(DMulInt(DFromInt(DTrunc(DMulInt(float(token), 1000))),
                           sr), 1000))

\* lines 80-84: int(float(token) * 1000 * sr / 1000)
text_to_sample(token, sr) ==
    DTrunc(DDivInt(DMulInt(DMulInt(float(token), 1000), sr), 1000))

----------------------------------------------------------------------------
(* Bounds of the model and the program's defaults.                         *)

MaxFrame == 5
MaxN == 4
MaxLines == 2
SignalLength == 3520

HopSize == 512
NFft == 2048
DefaultSampleRate == 48000
\* the default --min-length, 0.1 s, in milliseconds
DefaultMinLength == 100

\* operator.main's resolution values, lines 27-29
WindowLength == 384
NBins == 84
NMels == 128
MaxFiles == 3

Methods == {"onset", "beat", "text"}
SampleRates == {44100, DefaultSampleRate}
\* --min-length in milliseconds: "0", "0.02", "0.1" (the default)
MinLengths == {0, 20, DefaultMinLength}
\* what the user may type at the prompt
Choices == {"1", "2", "3", "4"}

\* the detectors' results: strictly increasing frame indices
BoundarySets ==
    UNION {{s \in [1..n -> 0..MaxFrame] :
                \A k \in 1..(n - 1) : s[k] < s[k + 1]} : n \in 0..MaxN}

\* A token of a boundary file: a six-place decimal text (its digits), or a
\* word float() rejects.
Num(d) == [numeric |-> TRUE, digits |-> d]
Word == [numeric |-> FALSE, digits |-> 0]
\* "0.0", "0.0005", "1.001", "1.5"
TimeTexts == {0, 500, 1001000, 1500000}
\* the lines of a boundary file, split into tokens
Lines ==
    {<<Num(s), Num(e)>> : s \in TimeTexts, e \in {1001000, 1500000}}
        \cup {<<>>, <<Num(0)>>, <<Word, Num(1500000)>>, <<Num(0), Word>>,
              <<Num(0), Num(1500000), Word>>}
TextFiles == UNION {[1..n -> Lines] : n \in 0..MaxLines}

----------------------------------------------------------------------------
VARIABLES
    args,        \* the parsed command line (the fields the Segmentor reads)
    native_sr,   \* the input file's own sample rate (sf.read, librosa.load sr=None)
    num_samples, \* the input file's length in samples
    txt_lines,   \* the boundary file the text method reads
    segments,    \* main's local `segments`: the Boundary Set, or "unbound"
    user_input,  \* main's local `user_input`
    pc,          \* where the invocation is
    i,           \* the running loop's index
    count,       \* render_segments' count
    files,       \* the audio files written, in order
    txt_out,     \* the text files written: <<>>, or <<the lines of <base>_segments.txt>>
    dir_made,    \* whether os.makedirs(output_directory) ran
    dir_exists,  \* whether the output directory exists
    events,      \* the calls on the conditioners, the writer and the metadata service
    calls,       \* main's calls, in order: input, render_segments, ...
    \* operator.main (src/wavecraft/operator.py)
    main_args,   \* its args: the fields the loop reads and writes
    saved,       \* its locals n_fft, hop_size, window_length, n_bins, n_mels
    batch,       \* load_files' result: what loading each file does
    file_idx,    \* the position of `for file in files`
    op_pc,       \* where operator.main is
    before_loop, \* the five resolution values of args when the loop is entered
    began_with   \* the five values at the start of each file's processing

segvars == <<args, native_sr, num_samples, txt_lines, segments, user_input,
             pc, i, count, files, txt_out, dir_made, dir_exists, events, calls>>
opvars == <<main_args, saved, batch, file_idx, op_pc, before_loop, began_with>>
vars == <<segvars, opvars>>

\* The command lines and input files of the model.  The text method reads
\* neither --sample-rate nor --min-length (they keep their defaults there);
\* the detection methods compute with --sample-rate alone and read no
\* boundary file.  The parser of lines 121-155 defines neither `file_format`
\* nor `sr`: has_file_format and has_sr are FALSE for a namespace it
\* built and TRUE for one a caller built with that attribute.  main reads
\* file_format on the text method only (line 107) and sr on a bound
\* `segments` only (line 117).  The text method never creates the output
\* directory, so it finds it present or absent; the detection methods
\* create it (line 109) before anything is written there.
OpIdle ==
    /\ main_args = [operation |-> "segment", n_fft |-> NFft,
                    hop_size |-> HopSize, window_length |-> 0, n_bins |-> 0,
                    n_mels |-> 0, no_resolution_adjustment |-> FALSE,
                    meta_file |-> FALSE]
    /\ saved = <<>>
    /\ batch = <<>>
    /\ file_idx = 0
    /\ op_pc = "idle"
    /\ before_loop = <<>>
    /\ began_with = <<>>

Init ==
    /\ OpIdle
    /\ \E method \in Methods :
        IF method = "text"
        THEN /\ args \in [segmentation_method : {method},
                          sample_rate : {DefaultSampleRate},
                          hop_size : {HopSize}, n_fft : {NFft},
                          min_length : {DefaultMinLength},
                          save_txt : BOOLEAN,
                          has_file_format : BOOLEAN, has_sr : {FALSE}]
             /\ native_sr \in SampleRates
             /\ txt_lines \in TextFiles
             /\ dir_exists \in BOOLEAN
        ELSE /\ args \in [segmentation_method : {method},
                          sample_rate : SampleRates,
                          hop_size : {HopSize}, n_fft : {NFft},
                          min_length : MinLengths,
                          save_txt : BOOLEAN,
                          has_file_format : {FALSE}, has_sr : BOOLEAN]
             /\ native_sr = args.sample_rate
             /\ txt_lines = <<>>
             /\ dir_exists = FALSE
    /\ num_samples = SignalLength
    /\ segments = "unbound"
    /\ user_input = ""
    /\ pc = "main"
    /\ i = 0
    /\ count = 0
    /\ files = <<>>
    /\ txt_out = <<>>
    /\ dir_made = FALSE
    /\ events = <<>>
    /\ calls = <<>>

----------------------------------------------------------------------------
(* render_segments, lines 21-48                                            *)

\* len(y[start:end]) for 0 <= start, end: Python clamps a slice to the array
slice_len(start, end, n) ==
    LET a == IF start < n THEN start ELSE n
        b == IF end < n THEN end ELSE n
    IN  IF b > a THEN b - a ELSE 0

\* line 24
render_samples == frames_to_samples(segments, args.hop_size, args.n_fft)

\* lines 27-29: candidate i (0-based) as [start, end, len]
candidate(k) ==
    LET start_sample == render_samples[k + 1]
        end_sample   == render_samples[k + 2]
    IN  [start |-> start_sample, end |-> end_sample,
         len |-> slice_len(start_sample, end_sample, num_samples)]

\* lines 31-32: segment_length < min_length, in double arithmetic
too_short(len) ==
    DLess(DDivInt(DFromInt(len), args.sample_rate),
          DDivInt(DFromInt(args.min_length), 1000))

\* Mutant of conditioned_and_written: the filter runs before the fade.
filtered_before_fade(k, n) ==
    << <<"filter", k>>, <<"fade_io", k>>, <<"normalise_audio", k>>,
       <<"write", n>>, <<"write_metadata", n>> >>

\* lines 36-43 for a segment that is written
conditioned_and_written(k, n) ==
    << <<"fade_io", k>>, <<"filter", k>>, <<"normalise_audio", k>>,
       <<"write", n>>, <<"write_metadata", n>> >>

\* lines 36-42 when sf.write raises
conditioned_write_failed(k, n) ==
    << <<"fade_io", k>>, <<"filter", k>>, <<"normalise_audio", k>>,
       <<"write_failed", n>> >>

\* lines 26-34: a candidate below min_length is skipped, with a warning
RenderSkip ==
    /\ pc = "render_segments"
    /\ i < Len(segments) - 1
    /\ too_short(candidate(i).len)
    /\ events' = Append(events, <<"skip", i>>)
    /\ i' = i + 1
    /\ UNCHANGED <<opvars, args, native_sr, num_samples, txt_lines, segments,
                   user_input, pc, count, files, txt_out, dir_made, dir_exists, calls>>

\* Mutant of RenderWrite: the file is numbered by the candidate's index.
RenderWriteByIndex ==
    /\ pc = "render_segments"
    /\ i < Len(segments) - 1
    /\ ~too_short(candidate(i).len)
    /\ count' = count + 1
    /\ events' = events \o conditioned_and_written(i, i + 1)
    /\ files' = Append(files, [path |-> <<"base", i + 1>>,
                               start |-> candidate(i).start,
                               end |-> candidate(i).end,
                               len |-> candidate(i).len])
    /\ i' = i + 1
    /\ UNCHANGED <<opvars, args, native_sr, num_samples, txt_lines, segments,
                   user_input, pc, txt_out, dir_made, dir_exists, calls>>

\* lines 26-43: a surviving candidate is conditioned and written
RenderWrite ==
    /\ pc = "render_segments"
    /\ i < Len(segments) - 1
    /\ ~too_short(candidate(i).len)
    /\ count' = count + 1
    /\ events' = events \o conditioned_and_written(i, count + 1)
    /\ files' = Append(files, [path |-> <<"base", count + 1>>,
                               start |-> candidate(i).start,
                               end |-> candidate(i).end,
                               len |-> candidate(i).len])
    /\ i' = i + 1
    /\ UNCHANGED <<opvars, args, native_sr, num_samples, txt_lines, segments,
                   user_input, pc, txt_out, dir_made, dir_exists, calls>>

\* Mutant of RenderWriteFail: the failure is swallowed and the loop goes on.
RenderWriteFailContinue ==
    /\ pc = "render_segments"
    /\ i < Len(segments) - 1
    /\ ~too_short(candidate(i).len)
    /\ count' = count + 1
    /\ events' = events \o conditioned_write_failed(i, count + 1)
    /\ i' = i + 1
    /\ UNCHANGED <<opvars, args, native_sr, num_samples, txt_lines, segments,
                   user_input, pc, files, txt_out, dir_made, dir_exists, calls>>

\* line 42 raises: the exception leaves render_segments and main
RenderWriteFail ==
    /\ pc = "render_segments"
    /\ i < Len(segments) - 1
    /\ ~too_short(candidate(i).len)
    /\ count' = count + 1
    /\ events' = events \o conditioned_write_failed(i, count + 1)
    /\ pc' = "error"
    /\ UNCHANGED <<opvars, args, native_sr, num_samples, txt_lines, segments,
                   user_input, i, files, txt_out, dir_made, dir_exists, calls>>

\* line 45, after the loop
RenderExport ==
    /\ pc = "render_segments"
    /\ i >= Len(segments) - 1
    /\ events' = Append(events, <<"export_json">>)
    /\ pc' = "save_txt"
    /\ UNCHANGED <<opvars, args, native_sr, num_samples, txt_lines, segments,
                   user_input, i, count, files, txt_out, dir_made, dir_exists, calls>>

----------------------------------------------------------------------------
(* save_segments_as_txt, lines 51-67: one "<start>\t<end>" line per        *)
(* adjacent pair, the boundaries taken as sample indices.                  *)

\* Mutant of save_segments_as_txt: the pairs render_segments would discard
\* are left out.
save_segments_min_length(onsets) ==
    LET kept == SelectSeq([k \in 1..(Len(onsets) - 1) |-> k],
                          LAMBDA k : ~too_short(candidate(k - 1).len))
    IN  [p \in 1..Len(kept) |->
            <<time_text(onsets[kept[p]], args.sample_rate),
              time_text(onsets[kept[p] + 1], args.sample_rate)>>]

save_segments_as_txt(onsets) ==
    [k \in 1..(Len(onsets) - 1) |->
        <<time_text(onsets[k], args.sample_rate),
          time_text(onsets[k + 1], args.sample_rate)>>]

----------------------------------------------------------------------------
(* segment_using_txt, lines 69-90                                          *)

\* lines 78-81: tokens[:2] unpacks into two names and float() parses both
well_formed(line) ==
    /\ Len(line) >= 2
    /\ line[1].numeric
    /\ line[2].numeric

\* lines 79-85: the slice of a well-formed line at sample rate sr
line_range(line, sr) ==
    LET start_sample == text_to_sample(line[1].digits, sr)
        end_sample   == text_to_sample(line[2].digits, sr)
    IN  [start |-> start_sample, end |-> end_sample,
         len |-> slice_len(start_sample, end_sample, num_samples)]

\* lines 77-90: line i is sliced, faded and written as segment_<i>.wav
SegmentLine ==
    /\ pc = "segment_using_txt"
    /\ i < Len(txt_lines)
    /\ well_formed(txt_lines[i + 1])
    /\ dir_exists
    /\ files' = Append(files,
                       [path |-> <<"segment", i>>,
                        start |-> line_range(txt_lines[i + 1], native_sr).start,
                        end |-> line_range(txt_lines[i + 1], native_sr).end,
                        len |-> line_range(txt_lines[i + 1], native_sr).len])
    /\ events' = events \o << <<"fade_io", i>>, <<"write", i>> >>
    /\ i' = i + 1
    /\ UNCHANGED <<opvars, args, native_sr, num_samples, txt_lines, segments,
                   user_input, pc, count, txt_out, dir_made, dir_exists, calls>>

\* lines 86-90: sf.write raises (always when the directory is absent, and
\* whenever the file cannot be written); nothing catches it
SegmentWriteFail ==
    /\ pc = "segment_using_txt"
    /\ i < Len(txt_lines)
    /\ well_formed(txt_lines[i + 1])
    /\ events' = events \o << <<"fade_io", i>>, <<"write_failed", i>> >>
    /\ pc' = "error"
    /\ UNCHANGED <<opvars, args, native_sr, num_samples, txt_lines, segments,
                   user_input, i, count, files, txt_out, dir_made, dir_exists,
                   calls>>

\* Mutant of SegmentLineError: the malformed line is skipped.
SegmentLineSkip ==
    /\ pc = "segment_using_txt"
    /\ i < Len(txt_lines)
    /\ ~well_formed(txt_lines[i + 1])
    /\ i' = i + 1
    /\ UNCHANGED <<opvars, args, native_sr, num_samples, txt_lines, segments,
                   user_input, pc, count, files, txt_out, dir_made, dir_exists, events,
                   calls>>

\* lines 79-81 raise ValueError on a malformed line
SegmentLineError ==
    /\ pc = "segment_using_txt"
    /\ i < Len(txt_lines)
    /\ ~well_formed(txt_lines[i + 1])
    /\ pc' = "error"
    /\ UNCHANGED <<opvars, args, native_sr, num_samples, txt_lines, segments,
                   user_input, i, count, files, txt_out, dir_made, dir_exists, events,
                   calls>>

\* the loop of line 77 ends
SegmentDone ==
    /\ pc = "segment_using_txt"
    /\ i >= Len(txt_lines)
    /\ pc' = "save_txt"
    /\ UNCHANGED <<opvars, args, native_sr, num_samples, txt_lines, segments,
                   user_input, i, count, files, txt_out, dir_made, dir_exists, events,
                   calls>>

----------------------------------------------------------------------------
(* Segmentor.main, lines 92-117                                            *)

\* lines 93-98: the detector returns the Boundary Set; the text method
\* binds nothing
Detect ==
    /\ pc = "main"
    /\ IF args.segmentation_method \in {"onset", "beat"}
       THEN \E s \in BoundarySets : segments' = s
       ELSE UNCHANGED segments
    /\ pc' = "input"
    /\ UNCHANGED <<opvars, args, native_sr, num_samples, txt_lines, user_input, i,
                   count, files, txt_out, dir_made, dir_exists, events, calls>>

\* Mutant of Choose: '3' is not acted on.
ChooseNoExit ==
    /\ pc = "input"
    /\ \E c \in Choices :
        /\ user_input' = c
        /\ pc' = "dispatch"
    /\ calls' = Append(calls, "input")
    /\ UNCHANGED <<opvars, args, native_sr, num_samples, txt_lines, segments,
                   i, count, files, txt_out, dir_made, dir_exists, events>>

\* lines 100-102: one input(); '3' is sys.exit()
Choose ==
    /\ pc = "input"
    /\ \E c \in Choices :
        /\ user_input' = c
        /\ pc' = IF c = "3" THEN "exit" ELSE "dispatch"
    /\ calls' = Append(calls, "input")
    /\ UNCHANGED <<opvars, args, native_sr, num_samples, txt_lines, segments, i,
                   count, files, txt_out, dir_made, dir_exists, events>>

\* lines 104-107: the text method; the arguments of the call are
\* evaluated first, and self.args.file_format raises AttributeError on a
\* namespace without it
DispatchTextError ==
    /\ pc = "dispatch"
    /\ args.segmentation_method = "text"
    /\ ~args.has_file_format
    /\ pc' = "error"
    /\ UNCHANGED <<opvars, args, native_sr, num_samples, txt_lines, segments,
                   user_input, i, count, files, txt_out, dir_made, dir_exists,
                   events, calls>>

\* lines 104-107: the text method, on a namespace that has file_format
DispatchText ==
    /\ pc = "dispatch"
    /\ args.segmentation_method = "text"
    /\ args.has_file_format
    /\ calls' = Append(calls, "segment_using_txt")
    /\ pc' = "segment_using_txt"
    /\ i' = 0
    /\ UNCHANGED <<opvars, args, native_sr, num_samples, txt_lines, segments,
                   user_input, count, files, txt_out, dir_made, dir_exists, events>>

\* lines 108-111: '1' enters render_segments
DispatchRender ==
    /\ pc = "dispatch"
    /\ args.segmentation_method # "text"
    /\ user_input = "1"
    /\ dir_made' = TRUE
    /\ dir_exists' = TRUE
    /\ calls' = Append(calls, "render_segments")
    /\ pc' = "render_segments"
    /\ i' = 0
    /\ count' = 0
    /\ UNCHANGED <<opvars, args, native_sr, num_samples, txt_lines, segments,
                   user_input, files, txt_out, events>>

\* lines 108-113: '2' runs save_segments_as_txt
DispatchExport ==
    /\ pc = "dispatch"
    /\ args.segmentation_method # "text"
    /\ user_input = "2"
    /\ dir_made' = TRUE
    /\ dir_exists' = TRUE
    /\ calls' = Append(calls, "save_segments_as_txt")
    /\ txt_out' = <<save_segments_as_txt(segments)>>
    /\ pc' = "save_txt"
    /\ UNCHANGED <<opvars, args, native_sr, num_samples, txt_lines, segments,
                   user_input, i, count, files, events>>

\* lines 108-113: any other answer only creates the directory
DispatchNone ==
    /\ pc = "dispatch"
    /\ args.segmentation_method # "text"
    /\ user_input \notin {"1", "2"}
    /\ dir_made' = TRUE
    /\ dir_exists' = TRUE
    /\ pc' = "save_txt"
    /\ UNCHANGED <<opvars, args, native_sr, num_samples, txt_lines, segments,
                   user_input, i, count, files, txt_out, events, calls>>

\* lines 116-117: with --save-txt the arguments of a second call of
\* save_segments_as_txt are evaluated: `segments` is unbound on the text
\* method (UnboundLocalError) and self.args.sr is missing on the parser's
\* namespace (AttributeError), both before the call; with an `sr` attribute
\* the call is made with three arguments and raises TypeError.  Nothing is
\* written in any case.
SaveTxt ==
    /\ pc = "save_txt"
    /\ IF args.save_txt
       THEN /\ calls' = IF args.segmentation_method # "text" /\ args.has_sr
                         THEN Append(calls, "save_segments_as_txt")
                         ELSE calls
            /\ pc' = "error"
       ELSE /\ pc' = "done"
            /\ UNCHANGED calls
    /\ UNCHANGED <<opvars, args, native_sr, num_samples, txt_lines, segments,
                   user_input, i, count, files, txt_out, dir_made, dir_exists, events>>

Next ==
    \/ Detect
    \/ Choose
    \/ DispatchTextError
    \/ DispatchText
    \/ DispatchRender
    \/ DispatchExport
    \/ DispatchNone
    \/ RenderSkip
    \/ RenderWrite
    \/ RenderWriteFail
    \/ RenderExport
    \/ SegmentLine
    \/ SegmentWriteFail
    \/ SegmentLineError
    \/ SegmentDone
    \/ SaveTxt

Spec == Init /\ [][Next]_vars

----------------------------------------------------------------------------
(* operator.main, src/wavecraft/operator.py lines 13-129: the per-file     *)
(* loop.  The Segmentor's variables stay as they are.                      *)

Operations == {"proxim", "segment", "filter", "wmeta", "rmeta"}
\* what loading a file does: it loads, sf.read/librosa.load raises
\* RuntimeError, or librosa.util.valid_audio rejects the signal
LoadOutcomes == {"ok", "unreadable", "invalid"}
Batches == UNION {[1..n -> LoadOutcomes] : n \in 1..MaxFiles}

\* lines 22-23
dsp == main_args.operation \notin {"wmeta", "info"}
process ==
    main_args.operation \notin {"segment", "extract", "onset", "beat", "decomp"}

\* the five values the loop adjusts and restores
resolution(a) == <<a.n_fft, a.hop_size, a.window_length, a.n_bins, a.n_mels>>

\* utils.adjust_anal_res(args), line 64: for a short signal the resolution
\* is lowered; which signal is short is the file's matter
adjust_anal_res(a) ==
    {<<a.n_fft \div d, a.hop_size \div d, a.window_length \div d,
       a.n_bins \div d, a.n_mels \div d>> : d \in {1, 2, 4}}

with_resolution(a, r) ==
    [a EXCEPT !.n_fft = r[1], !.hop_size = r[2], !.window_length = r[3],
              !.n_bins = r[4], !.n_mels = r[5]]

OpInit ==
    /\ main_args \in [operation : Operations, n_fft : {NFft \div 2, NFft},
                      hop_size : {HopSize}, window_length : {0},
                      n_bins : {0}, n_mels : {0},
                      no_resolution_adjustment : BOOLEAN,
                      meta_file : BOOLEAN]
    /\ saved = <<>>
    /\ batch \in Batches
    /\ file_idx = 0
    /\ op_pc = "start"
    /\ before_loop = <<>>
    /\ began_with = <<>>

SegIdle ==
    /\ args = [segmentation_method |-> "onset",
               sample_rate |-> DefaultSampleRate, hop_size |-> HopSize,
               n_fft |-> NFft, min_length |-> DefaultMinLength,
               save_txt |-> FALSE, has_file_format |-> FALSE,
               has_sr |-> FALSE]
    /\ native_sr = DefaultSampleRate
    /\ num_samples = SignalLength
    /\ txt_lines = <<>>
    /\ segments = "unbound"
    /\ user_input = ""
    /\ pc = "idle"
    /\ i = 0
    /\ count = 0
    /\ files = <<>>
    /\ txt_out = <<>>
    /\ dir_made = FALSE
    /\ dir_exists = FALSE
    /\ events = <<>>
    /\ calls = <<>>

InitOperator == SegIdle /\ OpInit

\* lines 15-42: proxim returns at once; otherwise the five values are
\* stored (three of them set first) and the files are listed
OpStart ==
    /\ op_pc = "start"
    /\ IF main_args.operation = "proxim"
       THEN /\ op_pc' = "done"
            /\ UNCHANGED <<main_args, saved, before_loop>>
       ELSE /\ main_args' = [main_args EXCEPT !.window_length = WindowLength,
                                              !.n_bins = NBins,
                                              !.n_mels = NMels]
            /\ saved' = <<main_args.n_fft, main_args.hop_size, WindowLength,
                          NBins, NMels>>
            /\ before_loop' = resolution(main_args')
            /\ op_pc' = "file"
    /\ UNCHANGED <<segvars, batch, file_idx, began_with>>

\* lines 44-56: the file cannot be loaded; `continue`
OpLoadFail ==
    /\ op_pc = "file"
    /\ file_idx < Len(batch)
    /\ dsp
    /\ batch[file_idx + 1] = "unreadable"
    /\ began_with' = Append(began_with, resolution(main_args))
    /\ file_idx' = file_idx + 1
    /\ UNCHANGED <<segvars, main_args, saved, batch, op_pc, before_loop>>

\* lines 44-59: the signal is not valid audio; sys.exit()
OpLoadInvalid ==
    /\ op_pc = "file"
    /\ file_idx < Len(batch)
    /\ dsp
    /\ batch[file_idx + 1] = "invalid"
    /\ began_with' = Append(began_with, resolution(main_args))
    /\ op_pc' = "exit"
    /\ UNCHANGED <<segvars, main_args, saved, batch, file_idx, before_loop>>

\* lines 44-65: the file is loaded (or needs no loading) and, unless
\* no_resolution_adjustment is set, the resolution is adjusted
OpLoad ==
    /\ op_pc = "file"
    /\ file_idx < Len(batch)
    /\ ~dsp \/ batch[file_idx + 1] = "ok"
    /\ began_with' = Append(began_with, resolution(main_args))
    /\ IF dsp /\ main_args.no_resolution_adjustment = FALSE
       THEN \E r \in adjust_anal_res(main_args) :
                main_args' = with_resolution(main_args, r)
       ELSE UNCHANGED main_args
    /\ op_pc' = "operate"
    /\ UNCHANGED <<segvars, saved, batch, file_idx, before_loop>>

\* lines 110-116: wmeta without a metadata file; sys.exit()
OpNoMetaFile ==
    /\ op_pc = "operate"
    /\ main_args.operation = "wmeta"
    /\ ~main_args.meta_file
    /\ op_pc' = "exit"
    /\ UNCHANGED <<segvars, main_args, saved, batch, file_idx, before_loop,
                   began_with>>

\* Mutant of OpOperate: hop_size is not restored.
OpOperateKeepsHop ==
    /\ op_pc = "operate"
    /\ main_args.operation = "wmeta" => main_args.meta_file
    /\ main_args' = with_resolution(main_args,
                                    [saved EXCEPT ![2] = main_args.hop_size])
    /\ file_idx' = file_idx + 1
    /\ op_pc' = "file"
    /\ UNCHANGED <<segvars, saved, batch, before_loop, began_with>>

\* lines 67-127: the operation runs, then the five values are restored
OpOperate ==
    /\ op_pc = "operate"
    /\ main_args.operation = "wmeta" => main_args.meta_file
    /\ main_args' = with_resolution(main_args, saved)
    /\ file_idx' = file_idx + 1
    /\ op_pc' = "file"
    /\ UNCHANGED <<segvars, saved, batch, before_loop, began_with>>

\* line 129: the loop is over
OpFinish ==
    /\ op_pc = "file"
    /\ file_idx >= Len(batch)
    /\ op_pc' = "done"
    /\ UNCHANGED <<segvars, main_args, saved, batch, file_idx, before_loop,
                   began_with>>

NextOperator ==
    \/ OpStart
    \/ OpLoadFail
    \/ OpLoadInvalid
    \/ OpLoad
    \/ OpNoMetaFile
    \/ OpOperate
    \/ OpFinish

SpecOperator == InitOperator /\ [][NextOperator]_vars

----------------------------------------------------------------------------
(* What the claims speak of, stated without the program's double           *)
(* arithmetic: exact integer comparisons on the Boundary Set.              *)

IsDetection == args.segmentation_method \in {"onset", "beat"}
Called(name) == \E p \in 1..Len(calls) : calls[p] = name
HasEvent(tag) == \E p \in 1..Len(events) : events[p][1] = tag

\* N boundaries delimit N - 1 candidates (none when there is no boundary)
NumCandidates == IF Len(segments) >= 1 THEN Len(segments) - 1 ELSE 0
Clamp(x) == IF x < num_samples THEN x ELSE num_samples
\* candidate k (1-based): the samples between boundaries k and k + 1
CandStart(k) == segments[k] * args.hop_size + (args.n_fft \div 2)
CandEnd(k) == segments[k + 1] * args.hop_size + (args.n_fft \div 2)
CandLen(k) == Clamp(CandEnd(k)) - Clamp(CandStart(k))
\* duration >= min_length: len / sample_rate >= min_length_ms / 1000
Survives(k) == CandLen(k) * 1000 >= args.min_length * args.sample_rate
Survivors == SelectSeq([k \in 1..NumCandidates |-> k], Survives)

\* render_segments has returned normally
\* the lines of the exported text file
TxtWritten == txt_out # <<>>
TxtLines == txt_out[1]

RenderReturned ==
    /\ IsDetection
    /\ Called("render_segments")
    /\ HasEvent("export_json")

\* the candidates the loop has evaluated (0-based, as the loop counts)
IsEvaluation(ev) == ev[1] \in {"skip", "fade_io"}
Evaluated ==
    LET evs == SelectSeq(events, IsEvaluation)
    IN  [p \in 1..Len(evs) |-> evs[p][2]]

\* C1: render_segments evaluates exactly the N-1 adjacent-pair candidates in
\* order (none for an empty Boundary Set) and writes one file per candidate
\* whose duration is >= min_length; the files are numbered 1..k in candidate
\* order, k the number of surviving candidates, so k <= N-1 and k < N-1
\* whenever some candidate is shorter than min_length.
C1_RenderCandidates ==
    (IsDetection /\ Called("render_segments")) =>
        /\ \A j \in 1..Len(files) : files[j].path = <<"base", j>>
        /\ RenderReturned =>
            /\ Evaluated = [p \in 1..NumCandidates |-> p - 1]
            /\ Len(files) = Len(Survivors)
            /\ \A j \in 1..Len(files) :
                /\ files[j].start = CandStart(Survivors[j])
                /\ files[j].end = CandEnd(Survivors[j])
                /\ files[j].len = CandLen(Survivors[j])
            /\ Len(files) <= NumCandidates
            /\ (\E k \in 1..NumCandidates : ~Survives(k)) =>
                   Len(files) < NumCandidates

\* three candidates, the first discarded: files 1 and 2 are candidates 2
\* and 3
C1_Witness ==
    /\ RenderReturned
    /\ args.min_length > 0
    /\ Len(segments) = 4
    /\ ~Survives(1)
    /\ Len(files) = 2
    /\ files[1].start = CandStart(2)
    /\ files[2].start = CandStart(3)

\* C2: save_segments_as_txt writes exactly N-1 lines (none for an empty
\* Boundary Set), one per adjacent boundary pair in boundary order and
\* whatever min_length is: a pair render_segments would discard still has
\* its line.  Line k carries boundaries k and k+1 as seconds, to the
\* microsecond.
NearTime(text, sample) ==
    /\ text * args.sample_rate - sample * 1000000 <= args.sample_rate
    /\ sample * 1000000 - text * args.sample_rate <= args.sample_rate
C2_ExportLines ==
    (IsDetection /\ TxtWritten) =>
        /\ Len(TxtLines) = NumCandidates
        /\ \A k \in 1..Len(TxtLines) :
            /\ NearTime(TxtLines[k][1], segments[k])
            /\ NearTime(TxtLines[k][2], segments[k + 1])

\* an exported line for a pair that render_segments discards
C2_Witness ==
    /\ IsDetection
    /\ TxtWritten
    /\ args.min_length > 0
    /\ Len(TxtLines) >= 2
    /\ \E k \in 1..NumCandidates : ~Survives(k)
    /\ \E k \in 1..NumCandidates : Survives(k)

\* C3: the sample ranges obtained by exporting the boundaries with
\* save_segments_as_txt and reading the text back with segment_using_txt at
\* the same sample rate equal the ranges render_segments slices for the
\* same Boundary Set, each start and end within 1 sample.
Within1(a, b) == a - b <= 1 /\ b - a <= 1
C3_RoundTrip ==
    (IsDetection /\ TxtWritten) =>
        \A k \in 1..Len(TxtLines) :
            /\ Within1(text_to_sample(TxtLines[k][1], args.sample_rate),
                       candidate(k - 1).start)
            /\ Within1(text_to_sample(TxtLines[k][2], args.sample_rate),
                       candidate(k - 1).end)

\* C4: once the Boundary Set is there, main reads exactly one choice, never
\* a second, and routes it: after '1' its next call is render_segments,
\* after '2' save_segments_as_txt, and '3' ends the invocation with nothing
\* written: no output directory, no segment file, no text file, no metadata.
InputsRead == Cardinality({p \in 1..Len(calls) : calls[p] = "input"})
C4_ChoiceRouted ==
    IsDetection =>
        /\ InputsRead <= 1
        /\ pc \notin {"main", "input"} => InputsRead = 1 /\ calls[1] = "input"
        /\ (user_input = "1" /\ pc # "dispatch") =>
               Len(calls) >= 2 /\ calls[2] = "render_segments"
        /\ (user_input = "2" /\ pc # "dispatch") =>
               Len(calls) >= 2 /\ calls[2] = "save_segments_as_txt"
        /\ user_input = "3" =>
               /\ pc = "exit"
               /\ calls = <<"input">>
               /\ ~dir_made
               /\ files = <<>>
               /\ txt_out = <<>>
               /\ events = <<>>
        /\ pc = "exit" => user_input = "3"

\* an abort on a Boundary Set that rendering would have written a file for
C4_Witness ==
    /\ IsDetection
    /\ pc = "exit"
    /\ Len(segments) >= 2
    /\ Survives(1)

\* C5: in segment_using_txt a malformed line (fewer than two tokens, or a
\* non-numeric start or end) fails the whole operation: the loop never
\* passes that line, no file is written for it or for any later line, the
\* call never completes, and once the call is over without a failed write
\* it has ended in an error at that line with every earlier line written.
Malformed(line) ==
    \/ Len(line) < 2
    \/ ~line[1].numeric
    \/ ~line[2].numeric
BadLines == {k \in 1..Len(txt_lines) : Malformed(txt_lines[k])}
FirstBad == CHOOSE k \in BadLines : \A j \in BadLines : k <= j
C5_MalformedFails ==
    (args.segmentation_method = "text" /\ BadLines # {}) =>
        /\ pc \notin {"save_txt", "done"}
        /\ i <= FirstBad - 1
        /\ \A j \in 1..Len(files) : files[j].path[2] < FirstBad - 1
        /\ (Called("segment_using_txt") /\ pc # "segment_using_txt"
                /\ ~HasEvent("write_failed")) =>
               /\ pc = "error"
               /\ i = FirstBad - 1
               /\ Len(files) = FirstBad - 1

\* the error at a malformed first line, a well-formed second line unread
C5_Witness ==
    /\ args.segmentation_method = "text"
    /\ Called("segment_using_txt")
    /\ ~HasEvent("write_failed")
    /\ pc = "error"
    /\ Len(txt_lines) = 2
    /\ Malformed(txt_lines[1])
    /\ ~Malformed(txt_lines[2])
    /\ files = <<>>

\* floor(digits * sr / 10^6) and whether the quotient is whole, exactly
ExactSamples(digits, sr) == BDivRem(BMulSmall(BFromInt(digits), sr), 1000000)
ExactFloor(digits, sr) == BToInt(BNorm(ExactSamples(digits, sr)[1]))
ExactWhole(digits, sr) == ExactSamples(digits, sr)[2] = 0
\* floor(time * sr), or one less where time * sr is whole
IsOffset(sample, digits, sr) ==
    \/ sample = ExactFloor(digits, sr)
    \/ ExactWhole(digits, sr) /\ sample = ExactFloor(digits, sr) - 1

\* C6 (as amended): every line i reached by segment_using_txt (0-based, no
\* malformed line and no failed write before it) whose write succeeds
\* produces exactly one file segment_<i>.wav, with no short-segment
\* discard, and a failed write ends the call in an error with no file for
\* that line; the file's range is [s, e) with each offset
\* floor(time * sample_rate) at the file's native rate, the milliseconds
\* kept fractional, or one sample less where time * sample_rate is a whole
\* number and the double arithmetic lands just under it.
C6_TextRanges ==
    args.segmentation_method = "text" =>
        /\ Len(files) = i
        /\ \A j \in 1..Len(files) :
            /\ files[j].path = <<"segment", j - 1>>
            /\ IsOffset(files[j].start, txt_lines[j][1].digits, native_sr)
            /\ IsOffset(files[j].end, txt_lines[j][2].digits, native_sr)
        /\ \A p \in 1..Len(events) :
            events[p][1] = "write_failed" =>
                p = Len(events) /\ pc = "error" /\ events[p][2] = Len(files)
        /\ (BadLines = {} /\ Called("segment_using_txt")
                /\ pc # "segment_using_txt" /\ ~HasEvent("write_failed")) =>
               Len(files) = Len(txt_lines)

\* the line "0.0005 1.001" at 48000 Hz: samples [24, 48047)
C6_Witness ==
    /\ args.segmentation_method = "text"
    /\ native_sr = 48000
    /\ \E j \in 1..Len(files) :
        /\ txt_lines[j] = <<Num(500), Num(1001000)>>
        /\ files[j].start = 24
        /\ files[j].end = 48047

\* C6 (as claimed): the range of line i's file is
\* [start_ms * sample_rate / 1000, end_ms * sample_rate / 1000), start_ms and
\* end_ms the line's times converted to millisecond integers (rounded down
\* or up).
MsOffsets(digits, sr) ==
    {((digits \div 1000) * sr) \div 1000,
     (((digits + 999) \div 1000) * sr) \div 1000}
C6_MillisecondIntegers ==
    args.segmentation_method = "text" =>
        \A j \in 1..Len(files) :
            /\ files[j].path = <<"segment", j - 1>>
            /\ files[j].start \in MsOffsets(txt_lines[j][1].digits, native_sr)
            /\ files[j].end \in MsOffsets(txt_lines[j][2].digits, native_sr)

\* C7: for every segment render_segments writes, the events are fade, then
\* filter, then normalise, then the file write, then the metadata stamp on
\* that file; no conditioning step is applied to a discarded candidate; and
\* the metadata side-car is serialised exactly once, as the last event,
\* when render_segments returns.
C7_ConditioningOrder ==
    IsDetection =>
        /\ \A p \in 1..Len(events) :
            /\ events[p][1] = "write" =>
                /\ p >= 4
                /\ p + 1 <= Len(events)
                /\ \E k \in 0..(NumCandidates - 1) :
                    /\ events[p - 3] = <<"fade_io", k>>
                    /\ events[p - 2] = <<"filter", k>>
                    /\ events[p - 1] = <<"normalise_audio", k>>
                /\ events[p + 1] = <<"write_metadata", events[p][2]>>
            /\ events[p][1] = "fade_io" =>
                /\ p + 3 <= Len(events)
                /\ events[p + 3][1] \in {"write", "write_failed"}
            /\ events[p][1] \in {"fade_io", "filter", "normalise_audio"} =>
                Survives(events[p][2] + 1)
            /\ events[p][1] = "export_json" => p = Len(events)
        /\ Cardinality({p \in 1..Len(events) : events[p][1] = "write"})
               = Len(files)
        /\ (Called("render_segments") /\ ~HasEvent("write_failed")
                /\ pc # "render_segments") => HasEvent("export_json")

\* a completed rendering with two files written and a candidate discarded
C7_Witness ==
    /\ RenderReturned
    /\ Len(files) >= 2
    /\ HasEvent("skip")

\* C8: if the write of a segment file fails during render_segments, the
\* remaining iterations are aborted (nothing is conditioned, written or
\* serialised after the failure) and every segment file written before the
\* failure is still there, unchanged.
C8_WriteFailureAborts ==
    \A p \in 1..Len(events) :
        (IsDetection /\ events[p][1] = "write_failed") =>
            /\ p = Len(events)
            /\ pc = "error"
            /\ Len(files) = events[p][2] - 1
            /\ \A j \in 1..Len(files) :
                /\ files[j].path = <<"base", j>>
                /\ files[j].start = CandStart(Survivors[j])
                /\ files[j].end = CandEnd(Survivors[j])
                /\ \E q \in 1..(p - 1) : events[q] = <<"write", j>>

\* a failed write after a written file, with a surviving candidate left
C8_Witness ==
    /\ IsDetection
    /\ HasEvent("write_failed")
    /\ Len(files) >= 1
    /\ i + 2 <= NumCandidates
    /\ Survives(i + 2)

\* C9: in every invocation of main with a detection method that is not
\* aborted, for either choice ('1' or '2') and any setting of save_txt, the
\* Boundary Set is consumed exactly once: exactly one of render_segments or
\* save_segments_as_txt is invoked on it, one time, and no second
\* consumption is attempted.  A second consumption is attempted when line
\* 117 is executed: the invocation then ends in an error that no failed
\* write explains.
Consumptions ==
    Cardinality({p \in 1..Len(calls) :
                    calls[p] \in {"render_segments", "save_segments_as_txt"}})
SecondAttempted == pc = "error" /\ ~HasEvent("write_failed")
C9_ConsumedOnce ==
    (IsDetection /\ user_input \in {"1", "2"} /\ pc \in {"done", "error"}) =>
        Consumptions = 1 /\ ~SecondAttempted

\* C10: in operator.main, whatever files fail to load and whatever the
\* resolution adjustments, the processing of every file begins with
\* args.n_fft, hop_size, window_length, n_bins and n_mels equal to the
\* values they had before the file loop started.
C10_ResolutionRestored ==
    \A k \in 1..Len(began_with) : began_with[k] = before_loop

\* a file begun after an earlier file's resolution was lowered, and after a
\* load failure
C10_Witness ==
    /\ Len(began_with) = 3
    /\ batch[2] = "unreadable"
    /\ op_pc = "operate"
    /\ resolution(main_args) # before_loop
    /\ main_args.no_resolution_adjustment = FALSE
    /\ file_idx = 2

====
